---- MODULE Spec2Model ----
(***************************************************************************)
(* Port Monad world simulation kernel: the WorldEngine (world.py), the     *)
(* RulesEngine (rules.py), the EventSystem (events.py), the price feed     *)
(* multipliers (pyth_oracle.py) and the storage wrapper (database.py).     *)
(*                                                                         *)
(* Conventions of the translation                                          *)
(*  - a Python dict is a function whose DOMAIN is the set of its keys;     *)
(*    None is the string "None";                                           *)
(*  - floats that the code builds from integers are kept as exact          *)
(*    fractions: percentages are integers over 100, random() variates are  *)
(*    integers over 200, uniform(0.10, 0.25) variates integers over 1000;  *)
(*  - the sha256 digest of _compute_state_hash is the record of the data   *)
(*    it digests (a collision-free digest);                                *)
(*  - random.Random(seed) is a function of its seed that is not known in   *)
(*    advance: rng holds the variates already produced for each seed, a    *)
(*    seed met for the first time draws any value of the bounded sets      *)
(*    below, a seed met again gives the same variate;                      *)
(*  - the module-level random of _update_market_prices is not seeded by    *)
(*    the kernel: every call draws afresh;                                 *)
(*  - wall-clock timestamps and the per-kind event description text are    *)
(*    left out of ledger entries and events: nothing reads them.           *)
(***************************************************************************)
EXTENDS Integers, Sequences, FiniteSets, TLC

VARIABLES
    state,      \* WorldEngine.state : WorldState
    agents,     \* WorldEngine.agents : wallet -> Agent
    ledger,     \* WorldEngine.ledger : list of entries
    db,         \* the storage behind WorldEngine._db
    before,     \* the engine as it was when the last call was made
    result,     \* the last call and what it returned
    rng,        \* variates produced so far by random.Random(seed), per seed
    replica,    \* a second engine instance fed the same calls (SpecReplay)
    ops         \* number of calls made so far

vars == <<state, agents, ledger, db, before, result, rng, replica, ops>>

----------------------------------------------------------------------------
(* Bounds of the model *)

MaxOps == 2

\* calls of process_tick in a run of the scheduler alone
MaxTicks == 4

----------------------------------------------------------------------------
(* Python helpers *)

None == "None"

EmptyDict == [k \in {} |-> 0]

PyGet(d, k, default) == IF k \in DOMAIN d THEN d[k] ELSE default

DictSet(d, k, v) == [y \in (DOMAIN d) \cup {k} |-> IF y = k THEN v ELSE d[y]]

RECURSIVE SumOver(_, _)
SumOver(d, keys) ==
    IF keys = {} THEN 0
    ELSE LET k == CHOOSE y \in keys : TRUE
         IN d[k] + SumOver(d, keys \ {k})

SumValues(d) == SumOver(d, DOMAIN d)

Min(a, b) == IF a < b THEN a ELSE b

Max(a, b) == IF a > b THEN a ELSE b

\* int(n / d) for d > 0: truncation toward zero
TruncDiv(n, d) == IF n >= 0 THEN n \div d ELSE -((-n) \div d)

\* round(n / d) for d > 0, ties to the even neighbour, as Python's round
RoundDiv(n, d) ==
    LET q == n \div d
        r == n % d
    IN IF 2 * r < d THEN q
       ELSE IF 2 * r > d THEN q + 1
       ELSE IF q % 2 = 0 THEN q ELSE q + 1

RECURSIVE Gcd(_, _)
Gcd(a, b) == IF b = 0 THEN a ELSE Gcd(b, a % b)

\* n / d in lowest terms, for n >= 0 and d > 0
Frac(n, d) == LET g == Gcd(n, d) IN [num |-> n \div g, den |-> d \div g]

\* the product of two fractions in lowest terms, cancelled before multiplying
MulFrac(f, g) ==
    LET a == Frac(f.num, g.den)
        b == Frac(g.num, f.den)
    IN [num |-> a.num * b.num, den |-> a.den * b.den]

RECURSIVE Pow(_, _)
Pow(b, e) == IF e = 0 THEN 1 ELSE b * Pow(b, e - 1)

----------------------------------------------------------------------------
(* world.py: enumerations and tables *)

Region == {"dock", "market", "mine", "forest"}

Resource == {"iron", "wood", "fish"}

\* AP costs with a raid at 20
AP_COSTS_CheapRaid == [move |-> 5, harvest |-> 10, place_order |-> 3, rest |-> 0,
                       raid |-> 20, negotiate |-> 15]

AP_COSTS == [move |-> 5, harvest |-> 10, place_order |-> 3, rest |-> 0,
             raid |-> 25, negotiate |-> 15]

\* yields that leave the dock out
YieldsWithoutDock == [mine |-> <<"iron">>, forest |-> <<"wood">>]

HARVEST_YIELDS == [mine |-> <<"iron">>, forest |-> <<"wood">>, dock |-> <<"fish">>]

\* an agent that always enters at tick 0
AgentEnteredAtZero(wallet, name, entered_at) ==
    [wallet |-> wallet, name |-> name, region |-> "dock", energy |-> 100,
     max_energy |-> 100, reputation |-> 100, credits |-> 1000,
     inventory |-> <<>>, entered_at |-> 0]

\* Agent(wallet, name, entered_at): the dataclass defaults
Agent(wallet, name, entered_at) ==
    [wallet |-> wallet, name |-> name, region |-> "dock", energy |-> 100,
     max_energy |-> 100, reputation |-> 100, credits |-> 1000,
     inventory |-> EmptyDict, entered_at |-> entered_at]

\* Agent.to_dict: the region as its string value, the other fields as they are
to_dict(a) ==
    [wallet |-> a.wallet, name |-> a.name, region |-> a.region,
     energy |-> a.energy, max_energy |-> a.max_energy,
     reputation |-> a.reputation, credits |-> a.credits,
     inventory |-> a.inventory, entered_at |-> a.entered_at]

\* Agent.from_dict: an unrecognised region string falls back to dock, missing
\* fields take the dataclass defaults
from_dict(data) ==
    [wallet |-> data.wallet, name |-> data.name,
     region |-> LET r == PyGet(data, "region", "dock")
                IN IF r \in Region THEN r ELSE "dock",
     energy |-> PyGet(data, "energy", 100),
     max_energy |-> PyGet(data, "max_energy", 100),
     reputation |-> PyGet(data, "reputation", 100),
     credits |-> PyGet(data, "credits", 1000),
     inventory |-> PyGet(data, "inventory", EmptyDict),
     entered_at |-> PyGet(data, "entered_at", 0)]

\* WorldState(): tax_rate 0.05 is kept in percent
WorldState ==
    [tick |-> 0, tax_rate |-> 5,
     market_prices |-> [iron |-> 15, wood |-> 12, fish |-> 8],
     active_events |-> <<>>, state_hash |-> ""]

----------------------------------------------------------------------------
(* events.py *)

EventType == <<"storm", "pirates", "trade_boom", "mine_collapse", "festival", "plague">>

EVENT_DURATIONS == [storm |-> 5, pirates |-> 3, trade_boom |-> 10,
                    mine_collapse |-> 8, festival |-> 5, plague |-> 15]

\* EventSystem.generate_seed: sha256 of "tick:state_hash:salt"
generate_seed(tick, state_hash) == <<"sha256", state_hash, tick, <<"port-monad-v1">>, 0>>

\* an event that starts with the tick after the one it was triggered in
create_event_next_tick(event_type, tick, suffix) ==
    [event_id |-> <<event_type, tick, suffix>>, event_type |-> event_type,
     started_tick |-> tick + 1, duration |-> EVENT_DURATIONS[event_type]]

\* EventSystem.create_event: the id is kind, tick and the randint(1000, 9999) suffix
create_event(event_type, tick, suffix) ==
    [event_id |-> <<event_type, tick, suffix>>, event_type |-> event_type,
     started_tick |-> tick, duration |-> EVENT_DURATIONS[event_type]]

\* EventSystem.check_events: draw is what the generator seeded with
\* generate_seed(tick, state_hash) produces: a dict from each kind whose
\* random() fell below its probability to the id suffix drawn for it; the
\* events come in the order of the probability table
check_events(tick, draw) ==
    LET hit == SelectSeq(EventType, LAMBDA t : t \in DOMAIN draw)
    IN [i \in 1..Len(hit) |-> create_event(hit[i], tick, draw[hit[i]])]

RECURSIVE CountType(_, _)
CountType(events, t) ==
    IF events = <<>> THEN 0
    ELSE (IF Head(events).event_type = t THEN 1 ELSE 0) + CountType(Tail(events), t)

\* EventSystem.get_active_effects. Each modifier is a product of one factor per
\* active event, kept as numerator and denominator:
\*   harvest_modifier     = 0.5^storm * 0.7^mine_collapse
\*   price_modifier       = 1.2^trade_boom
\*   ap_recovery_modifier = 0.5^plague
\*   danger_level         = storm + 2 * pirates
get_active_effects(events) ==
    [harvest_modifier |->
        [num |-> Pow(5, CountType(events, "storm")) * Pow(7, CountType(events, "mine_collapse")),
         den |-> Pow(10, CountType(events, "storm")) * Pow(10, CountType(events, "mine_collapse"))],
     price_modifier |->
        [num |-> Pow(12, CountType(events, "trade_boom")),
         den |-> Pow(10, CountType(events, "trade_boom"))],
     ap_recovery_modifier |->
        [num |-> 1, den |-> Pow(2, CountType(events, "plague"))],
     danger_level |-> CountType(events, "storm") + 2 * CountType(events, "pirates")]

----------------------------------------------------------------------------
(* pyth_oracle.py *)

RESOURCE_SENSITIVITY == [fish |-> 100, iron |-> 60, wood |-> 30]

\* PythPriceFeed.get_price_effects, in percent. feed is <<pct>>, the change of
\* MON/USD from the baseline in whole percent, or <<>> when no price or no
\* baseline is known; each multiplier is clamped to [0.25, 3.0]
get_price_effects(feed) ==
    IF feed = <<>> THEN [r \in DOMAIN RESOURCE_SENSITIVITY |-> 100]
    ELSE [r \in DOMAIN RESOURCE_SENSITIVITY |->
            Max(25, Min(300, 100 + feed[1] * RESOURCE_SENSITIVITY[r]))]

----------------------------------------------------------------------------
(* database.py: the storage. up is FALSE when WorldEngine._db is None,       *)
(* raises is TRUE when its statements raise (the connection is lost): a     *)
(* write then changes nothing and the exception goes to the caller          *)

NoDatabase ==
    [up |-> FALSE, raises |-> FALSE, agents |-> EmptyDict, world_state |-> <<>>,
     actions |-> <<>>, events |-> <<>>]

EmptyDatabase ==
    [up |-> TRUE, raises |-> FALSE, agents |-> EmptyDict, world_state |-> <<>>,
     actions |-> <<>>, events |-> <<>>]

\* a write to the storage of engine E raises
Raises(E) == E.db.up /\ E.db.raises

\* what the caller gets when an exception leaves the call
Raised == [raised |-> TRUE]

\* Database.save_agent
save_agent(d, agent_data) ==
    [d EXCEPT !.agents = DictSet(@, agent_data.wallet, agent_data)]

RECURSIVE save_agents(_, _, _)
save_agents(d, ags, todo) ==
    IF todo = {} THEN d
    ELSE LET w == CHOOSE y \in todo : TRUE
         IN save_agents(save_agent(d, to_dict(ags[w])), ags, todo \ {w})

\* Database.save_world_state: the latest snapshot
save_world_state(d, tick, state_hash, market_prices, active_events) ==
    [d EXCEPT !.world_state = <<[tick |-> tick, state_hash |-> state_hash,
                                 market_prices |-> market_prices,
                                 active_events |-> active_events]>>]

\* Database.log_action
log_action(d, entry) == [d EXCEPT !.actions = Append(@, entry)]

\* Database.save_event
save_event(d, tick, event) ==
    [d EXCEPT !.events = Append(@, [tick |-> tick, event_type |-> event.event_type,
                                    event_data |-> event, duration |-> event.duration,
                                    started_at |-> event.started_tick,
                                    expires_at |-> event.started_tick + event.duration])]

RECURSIVE save_events(_, _, _)
save_events(d, tick, events) ==
    IF events = <<>> THEN d
    ELSE save_events(save_event(d, tick, Head(events)), tick, Tail(events))

----------------------------------------------------------------------------
(* world.py: WorldEngine. An engine is the record of its fields *)

\* WorldEngine._compute_state_hash: the digest of tick, prices, event ids and
\* each agent's region and total inventory count
StateDigest(st, ags) ==
    [tick |-> st.tick, prices |-> st.market_prices,
     events |-> [i \in 1..Len(st.active_events) |-> st.active_events[i].event_id],
     agents |-> [w \in DOMAIN ags |->
                    [region |-> ags[w].region, inv |-> SumValues(ags[w].inventory)]]]

_compute_state_hash(E) ==
    [E EXCEPT !.state.state_hash = StateDigest(E.state, E.agents)]

\* WorldEngine._load_from_database
_load_from_database(E) ==
    IF ~E.db.up THEN E
    ELSE LET ws == E.db.world_state
             st == IF ws = <<>> THEN E.state
                   ELSE [E.state EXCEPT !.tick = ws[1].tick,
                                        !.state_hash = ws[1].state_hash,
                                        !.market_prices = ws[1].market_prices]
         IN [E EXCEPT !.state = st,
                      !.agents = [w \in DOMAIN E.db.agents |-> from_dict(E.db.agents[w])]]

\* WorldEngine.__init__
WorldEngine(database) ==
    _compute_state_hash(_load_from_database(
        [state |-> WorldState, agents |-> EmptyDict, ledger |-> <<>>, db |-> database]))

\* WorldEngine._save_to_database
_save_to_database(E) ==
    IF ~E.db.up THEN E
    ELSE [E EXCEPT !.db = save_agents(
            save_world_state(E.db, E.state.tick, E.state.state_hash,
                             E.state.market_prices, E.state.active_events),
            E.agents, DOMAIN E.agents)]

\* a ledger that keeps the successes only
LogSuccessOnly(E, wallet, action, params, success, message) ==
    IF ~success THEN E
    ELSE [E EXCEPT !.ledger = Append(@,
             [tick |-> E.state.tick, wallet |-> wallet, action |-> action,
              params |-> params, success |-> success, message |-> message,
              state_hash |-> E.state.state_hash])]

\* WorldEngine._log_action
_log_action(E, wallet, action, params, success, message) ==
    LET entry == [tick |-> E.state.tick, wallet |-> wallet, action |-> action,
                  params |-> params, success |-> success, message |-> message,
                  state_hash |-> E.state.state_hash]
    IN [E EXCEPT !.ledger = Append(@, entry),
                 !.db = IF E.db.up /\ ~E.db.raises THEN log_action(@, entry) ELSE @]

\* a registry that knows nobody
NeverRegistered(E, wallet) == FALSE

\* `wallet in self.agents`
AlreadyRegistered(E, wallet) == wallet \in DOMAIN E.agents

\* WorldEngine.register_agent
register_agent(E, wallet, name) ==
    IF AlreadyRegistered(E, wallet)
    THEN [eng |-> E, ret |-> [op |-> "register_agent", agent |-> E.agents[wallet]]]
    ELSE IF Raises(E)
    THEN [eng |-> [E EXCEPT !.agents =
                                DictSet(@, wallet, Agent(wallet, name, E.state.tick))],
          ret |-> Raised]
    ELSE LET agent == Agent(wallet, name, E.state.tick)
             E1 == [E EXCEPT !.agents = DictSet(@, wallet, agent),
                             !.db = IF E.db.up THEN save_agent(@, to_dict(agent)) ELSE @]
             E2 == _log_action(E1, wallet, "register", [name |-> name], TRUE,
                               "Agent registered")
         IN [eng |-> E2, ret |-> [op |-> "register_agent", agent |-> agent]]

RECURSIVE total_supply(_, _, _)
total_supply(ags, todo, res) ==
    IF todo = {} THEN 0
    ELSE LET w == CHOOSE y \in todo : TRUE
         IN PyGet(ags[w].inventory, res, 0) + total_supply(ags, todo \ {w}, res)

base_prices == [iron |-> 15, wood |-> 12, fish |-> 8]

\* a clamp that has lost its floor
ClampPriceNoFloor(p) == Min(50, p)

\* the clamp of _update_market_prices
ClampPrice(p) == Max(3, Min(50, p))

\* One resource of WorldEngine._update_market_prices:
\*   current * supply_factor * noise * reversion * event_mod * pyth_mod,
\* rounded and clamped. noise and pyth_mod are in percent. The product is
\* exact here; the code's float product can differ from it only when it falls
\* exactly halfway between two integers
NewPrice(current, base, supply, noise, price_modifier, pyth_mod) ==
    LET supply_factor == Frac(Max(70, 100 - supply), 100)
        reversion == Frac(100 + (base - current) * 2, 100)
        event_mod == Frac(price_modifier.num, price_modifier.den)
        new_price == MulFrac(MulFrac(MulFrac(MulFrac(MulFrac(
                        Frac(current, 1), supply_factor), Frac(noise, 100)),
                        reversion), event_mod), Frac(pyth_mod, 100))
    IN ClampPrice(RoundDiv(new_price.num, new_price.den))

\* WorldEngine._update_market_prices. noise[r] is the uniform(0.92, 1.08) drawn
\* for r from the module-level generator, pyth_effects what the feed returned
_update_market_prices(E, effects, noise, pyth_effects) ==
    [E EXCEPT !.state.market_prices =
        [r \in DOMAIN E.state.market_prices |->
            NewPrice(E.state.market_prices[r], PyGet(base_prices, r, 10),
                     total_supply(E.agents, DOMAIN E.agents, r), noise[r],
                     effects.price_modifier, PyGet(pyth_effects, r, 100))]]

\* a filter that keeps an event for one tick more
UnexpiredEventsLate(events, tick) ==
    SelectSeq(events, LAMBDA e : e.started_tick + e.duration >= tick)

\* step 1 of process_tick: the events that have not expired
UnexpiredEvents(events, tick) ==
    SelectSeq(events, LAMBDA e : e.started_tick + e.duration > tick)

\* a recovery rounded up instead of truncated
ActualRecoveryRoundedUp(effects) ==
    -((-(5 * effects.ap_recovery_modifier.num)) \div effects.ap_recovery_modifier.den)

\* step 6 of process_tick: int(base_recovery * ap_recovery_modifier)
ActualRecovery(effects) ==
    TruncDiv(5 * effects.ap_recovery_modifier.num, effects.ap_recovery_modifier.den)

\* a recovery that has lost its cap
RecoverEnergyUncapped(a, actual_recovery) ==
    [a EXCEPT !.energy = a.energy + actual_recovery]

\* step 6 of process_tick: min(max_energy, energy + actual_recovery)
RecoverEnergy(a, actual_recovery) ==
    [a EXCEPT !.energy = Min(a.max_energy, a.energy + actual_recovery)]

\* a tick that does not advance
KeepTick(tick) == tick

\* step 7 of process_tick
AdvanceTick(tick) == tick + 1

\* WorldEngine.process_tick
process_tick(E, draw, noise, pyth_effects) ==
    LET new_events == check_events(E.state.tick, draw)
        E1 == [E EXCEPT !.state.active_events =
                            UnexpiredEvents(@, E.state.tick) \o new_events,
                        !.db = IF E.db.up THEN save_events(@, E.state.tick, new_events)
                               ELSE @]
        effects == get_active_effects(E1.state.active_events)
        E2 == _update_market_prices(E1, effects, noise, pyth_effects)
        actual_recovery == ActualRecovery(effects)
        E3 == [E2 EXCEPT !.agents = [w \in DOMAIN @ |-> RecoverEnergy(@[w], actual_recovery)],
                         !.state.tick = AdvanceTick(@)]
        E4 == _save_to_database(_compute_state_hash(E3))
    IN IF Raises(E) /\ new_events # <<>>
       THEN [eng |-> [E EXCEPT !.state.active_events =
                                   UnexpiredEvents(@, E.state.tick) \o new_events],
             ret |-> Raised]
       ELSE IF Raises(E)
       THEN [eng |-> _compute_state_hash(E3), ret |-> Raised]
       ELSE
       [eng |-> E4,
        ret |-> [op |-> "process_tick", tick |-> E4.state.tick,
                 state_hash |-> E4.state.state_hash,
                 agent_count |-> Cardinality(DOMAIN E4.agents),
                 market_prices |-> E4.state.market_prices,
                 new_events |-> new_events, ap_recovery |-> actual_recovery]]

----------------------------------------------------------------------------
(* rules.py: RulesEngine. A handler gets the engine, the acting agent's      *)
(* wallet, the params and the table of seeded variates, and gives the        *)
(* engine after the call (eng), the returned dict (ret) and the variates it  *)
(* consumed (used).                                                          *)

\* `not x` for a str-or-None parameter
Falsy(x) == x = None \/ x = ""

\* the seed of random.Random in _handle_harvest and _handle_raid:
\*   int(state_hash, 16) + tick + hash(key);
\* _handle_negotiate leaves the tick out, which is the same seed at tick 0
PySeed(state_hash, tick, key) == <<"int", state_hash, tick, key>>

\* the pos-th variate of random.Random(seed)
Variate(tbl, seed, pos) == tbl[Append(seed, pos)]

\* RulesEngine._success: log, then recompute the state hash
_success(E, w, action, params, message, data) ==
    LET E1 == _compute_state_hash(_log_action(E, w, action, params, TRUE, message))
    IN IF Raises(E)
       THEN [eng |-> _log_action(E, w, action, params, TRUE, message), ret |-> Raised]
       ELSE
       [eng |-> E1,
        ret |-> [success |-> TRUE, action |-> action, message |-> message,
                 agent |-> to_dict(E1.agents[w]), tick |-> E1.state.tick,
                 data |-> data]]

\* RulesEngine._fail: log only
_fail(E, w, action, params, message) ==
    LET E1 == _log_action(E, w, action, params, FALSE, message)
    IN IF Raises(E) THEN [eng |-> E1, ret |-> Raised]
       ELSE
       [eng |-> E1,
        ret |-> [success |-> FALSE, action |-> action, message |-> message,
                 agent |-> to_dict(E1.agents[w])]]

\* the target checks of _handle_move with "Already in" left out
MoveRejectionAnyRegion(agent, target) ==
    IF Falsy(target) THEN "Missing target region"
    ELSE IF target \notin Region THEN "Invalid region"
    ELSE None

\* the target checks of _handle_move: the message of the _fail, or None
MoveRejection(agent, target) ==
    IF Falsy(target) THEN "Missing target region"
    ELSE IF target \notin Region THEN "Invalid region"
    ELSE IF agent.region = target THEN "Already in"
    ELSE None

\* RulesEngine._handle_move
_handle_move(E, w, params) ==
    LET agent == E.agents[w]
        target == PyGet(params, "target", None)
        rejection == MoveRejection(agent, target)
    IN IF rejection # None
       THEN _fail(E, w, "move", params, rejection)
       ELSE _success([E EXCEPT !.agents[w].energy = @ - AP_COSTS["move"],
                               !.agents[w].region = target],
                     w, "move", params, "Moved",
                     [from |-> agent.region, to |-> target])

\* a harvest that feels the weather: the quantity drawn times harvest_modifier
HarvestedQuantityScaled(events, drawn) ==
    TruncDiv(drawn * get_active_effects(events).harvest_modifier.num,
             get_active_effects(events).harvest_modifier.den)

\* quantity = rng.randint(1, 5): the quantity drawn is the quantity harvested,
\* whatever events are active
HarvestedQuantity(events, drawn) == drawn

\* RulesEngine._handle_harvest: rng.choice(yields) is the first variate of the
\* seeded generator, rng.randint(1, 5) the second
_handle_harvest(E, w, params, tbl) ==
    LET agent == E.agents[w]
    IN IF agent.region \notin DOMAIN HARVEST_YIELDS
       THEN _fail(E, w, "harvest", params, "Cannot harvest") @@ [used |-> {}]
       ELSE LET seed == PySeed(E.state.state_hash, E.state.tick, <<w>>)
                yields == HARVEST_YIELDS[agent.region]
                resource == yields[1]
                quantity == HarvestedQuantity(E.state.active_events,
                                              Variate(tbl, seed, 2))
                current == PyGet(agent.inventory, resource, 0)
            IN _success([E EXCEPT !.agents[w].energy = @ - AP_COSTS["harvest"],
                                  !.agents[w].inventory =
                                      DictSet(@, resource, current + quantity)],
                        w, "harvest", params, "Harvested",
                        [resource |-> resource, quantity |-> quantity])
               @@ [used |-> {Append(seed, 2)}]

\* a rest that recovers the same everywhere
RecoveryFlat(region) == 20

\* the recovery of a rest: the dock has a tavern
Recovery(region) == IF region = "dock" THEN 30 ELSE 20

\* RulesEngine._handle_rest
_handle_rest(E, w, params) ==
    LET agent == E.agents[w]
        recovery == Recovery(agent.region)
        energy == Min(agent.max_energy, agent.energy + recovery)
    IN _success([E EXCEPT !.agents[w].energy = energy],
                w, "rest", params, "Rested",
                [recovery |-> energy - agent.energy])

\* a sell that pays the full price
RevenueUntaxed(price, quantity, tax_rate) == price * quantity

\* the sell revenue int(price * quantity * (1 - tax_rate)), tax_rate in percent
Revenue(price, quantity, tax_rate) ==
    TruncDiv(price * quantity * (100 - tax_rate), 100)

\* an order that costs no AP
DeductNoOrderAP(E, w) == E

\* "Deduct AP" of _handle_place_order, ahead of the sell and buy checks
DeductOrderAP(E, w) ==
    [E EXCEPT !.agents[w].energy = @ - AP_COSTS["place_order"]]

\* a funds check that also turns down the exact amount
CannotAffordExact(credits, cost) == credits <= cost

\* the funds check of a buy
CannotAfford(credits, cost) == credits < cost

\* RulesEngine._handle_place_order
_handle_place_order(E, w, params) ==
    LET agent == E.agents[w]
        resource == PyGet(params, "resource", None)
        side == PyGet(params, "side", None)
        quantity == PyGet(params, "quantity", 1)
        price == E.state.market_prices[resource]
        E1 == DeductOrderAP(E, w)
        current == PyGet(agent.inventory, resource, 0)
    IN IF Falsy(resource) \/ Falsy(side)
       THEN _fail(E, w, "place_order", params, "Missing resource or side parameter")
       ELSE IF agent.region # "market"
       THEN _fail(E, w, "place_order", params, "Must be in market to trade")
       ELSE IF resource \notin DOMAIN E.state.market_prices
       THEN _fail(E, w, "place_order", params, "Unknown resource")
       ELSE IF side = "sell"
       THEN IF current < quantity
            THEN _fail(E1, w, "place_order", params, "Insufficient inventory")
            ELSE LET revenue == Revenue(price, quantity, E.state.tax_rate)
                 IN _success([E1 EXCEPT !.agents[w].inventory =
                                            DictSet(@, resource, current - quantity),
                                        !.agents[w].credits = @ + revenue],
                             w, "place_order", params, "Sold",
                             [resource |-> resource, quantity |-> quantity,
                              revenue |-> revenue])
       ELSE IF side = "buy"
       THEN LET cost == price * quantity
            IN IF CannotAfford(agent.credits, cost)
               THEN _fail(E1, w, "place_order", params, "Insufficient funds")
               ELSE _success([E1 EXCEPT !.agents[w].credits = @ - cost,
                                        !.agents[w].inventory =
                                            DictSet(@, resource, current + quantity)],
                             w, "place_order", params, "Bought",
                             [resource |-> resource, quantity |-> quantity,
                              cost |-> cost])
       ELSE _fail(E1, w, "place_order", params, "Invalid side")

\* a shift that favours the attacker of lower reputation
rep_bonus_reversed(attacker_reputation, target_reputation) ==
    target_reputation - attacker_reputation

\* rep_bonus = (agent.reputation - target.reputation) / 200, over 200
rep_bonus(attacker_reputation, target_reputation) ==
    attacker_reputation - target_reputation

\* a success rate that is not clamped
RaidSuccessRateUnclamped(attacker_reputation, target_reputation) ==
    120 + rep_bonus(attacker_reputation, target_reputation)

\* success_rate = max(0.2, min(0.9, 0.6 + rep_bonus)), over 200
RaidSuccessRate(attacker_reputation, target_reputation) ==
    Max(40, Min(180, 120 + rep_bonus(attacker_reputation, target_reputation)))

\* the region checks of _handle_raid with the protected zone left out
RegionCheckSameOnly(agent, target) ==
    IF agent.region # target.region THEN "Target is in another region" ELSE None

\* the region checks of _handle_raid: the message of the _fail, or None
RegionCheck(agent, target) ==
    IF agent.region # target.region THEN "Target is in another region"
    ELSE IF agent.region = "market"
    THEN "Cannot raid in the market (protected zone)"
    ELSE None

\* what stops a raid before it executes: the message of the _fail, or None
RaidRejection(E, w, target_wallet) ==
    IF Falsy(target_wallet) THEN "Missing target wallet"
    ELSE IF target_wallet = w THEN "Cannot raid yourself"
    ELSE IF target_wallet \notin DOMAIN E.agents THEN "Target agent not found"
    ELSE RegionCheck(E.agents[w], E.agents[target_wallet])

\* reputation changes in which every agent but the raider gains sympathy
RaidReputationsForAll(ags, w, target_wallet) ==
    [x \in DOMAIN ags |->
        IF x = w THEN [ags[x] EXCEPT !.reputation = Max(0, @ - 10)]
        ELSE [ags[x] EXCEPT !.reputation = Min(200, @ + 5)]]

\* reputation changes without max(0, ...) and min(200, ...)
RaidReputationsUnbounded(ags, w, target_wallet) ==
    [ags EXCEPT ![w].reputation = @ - 10,
                ![target_wallet].reputation = @ + 5]

\* "Reputation changes" of a won raid: the raider loses reputation, the
\* victim gains sympathy
RaidReputations(ags, w, target_wallet) ==
    [ags EXCEPT ![w].reputation = Max(0, @ - 10),
                ![target_wallet].reputation = Min(200, @ + 5)]

\* RulesEngine._handle_raid
_handle_raid(E, w, params, tbl) ==
    LET agent == E.agents[w]
        target_wallet == PyGet(params, "target", None)
        rejection == RaidRejection(E, w, target_wallet)
    IN IF rejection # None
       THEN _fail(E, w, "raid", params, rejection) @@ [used |-> {}]
       ELSE
       LET target == E.agents[target_wallet]
           seed == PySeed(E.state.state_hash, E.state.tick, <<w, target_wallet>>)
           success_rate == RaidSuccessRate(agent.reputation, target.reputation)
           roll == Variate(tbl, seed, 1)
           E1 == [E EXCEPT !.agents[w].energy = @ - AP_COSTS["raid"]]
       IN IF roll < success_rate
          THEN LET steal_percent == Variate(tbl, seed, 2)
                   stolen == Min(TruncDiv(target.credits * steal_percent, 1000),
                                 target.credits)
               IN _success([E1 EXCEPT !.agents =
                               RaidReputations(
                                   [@ EXCEPT ![target_wallet].credits = @ - stolen,
                                             ![w].credits = @ + stolen],
                                   w, target_wallet)],
                           w, "raid", params, "Raid successful!",
                           [stolen |-> stolen, target |-> target.name,
                            target_remaining |-> target.credits - stolen])
                  @@ [used |-> {Append(seed, 1), Append(seed, 2)}]
          ELSE LET penalty == TruncDiv(agent.credits * 5, 100)
               IN _success([E1 EXCEPT !.agents[w].credits = @ - penalty,
                                      !.agents[w].reputation = Max(0, @ - 5)],
                           w, "raid", params, "Raid failed!",
                           [penalty |-> penalty, target |-> target.name])
                  @@ [used |-> {Append(seed, 1)}]

\* "Validate offer" of _handle_negotiate: the message of the _fail, or None
OfferCheck(agent, offer_type, offer_amount, offer_resource) ==
    IF offer_type = "credits"
    THEN IF agent.credits < offer_amount
         THEN "Insufficient credits to offer" ELSE None
    ELSE IF offer_type = "resource"
    THEN IF Falsy(offer_resource) THEN "Must specify offer_resource"
         ELSE IF PyGet(agent.inventory, offer_resource, 0) < offer_amount
         THEN "Insufficient resource to offer" ELSE None
    ELSE None

\* "Validate want" of _handle_negotiate, with the check on the target left out
WantCheckSkipped(target, want_type, want_amount, want_resource) ==
    IF want_type = "resource" /\ Falsy(want_resource)
    THEN "Must specify want_resource" ELSE None

\* "Validate want" of _handle_negotiate: the message of the _fail, or None
WantCheck(target, want_type, want_amount, want_resource) ==
    IF want_type = "credits"
    THEN IF target.credits < want_amount
         THEN "Target has insufficient credits" ELSE None
    ELSE IF want_type = "resource"
    THEN IF Falsy(want_resource) THEN "Must specify want_resource"
         ELSE IF PyGet(target.inventory, want_resource, 0) < want_amount
         THEN "Target has insufficient resource" ELSE None
    ELSE None

\* what stops a negotiate before any AP is spent: the message of the _fail,
\* or None
NegotiateRejection(E, w, params) ==
    LET agent == E.agents[w]
        target_wallet == PyGet(params, "target", None)
        target == E.agents[target_wallet]
        offer_check == OfferCheck(agent, PyGet(params, "offer_type", "credits"),
                                  PyGet(params, "offer_amount", 0),
                                  PyGet(params, "offer_resource", None))
        want_check == WantCheck(target, PyGet(params, "want_type", "credits"),
                                PyGet(params, "want_amount", 0),
                                PyGet(params, "want_resource", None))
    IN IF Falsy(target_wallet) THEN "Missing target wallet"
       ELSE IF target_wallet = w THEN "Cannot negotiate with yourself"
       ELSE IF target_wallet \notin DOMAIN E.agents THEN "Target agent not found"
       ELSE IF agent.region # target.region THEN "Target is in another region"
       ELSE IF offer_check # None THEN offer_check
       ELSE want_check

\* fairness * roll >= acceptance_threshold, where
\*   fairness = offer_value / want_value, or 2.0 when want_value <= 0,
\*   roll = 0.8 + 0.4 * u for the unit variate u (over 200),
\*   acceptance_threshold = 0.7 - (reputation - 100) / 200
Accepted(offer_value, want_value, reputation, u) ==
    IF want_value > 0
    THEN offer_value * (800 + 2 * u) >= 5 * (240 - reputation) * want_value
    ELSE 2 * (800 + 2 * u) >= 5 * (240 - reputation)

\* the exchange of an accepted negotiate: first the offer leg, then the want leg
TransferOffer(ags, w, t, offer_type, offer_amount, offer_resource) ==
    IF offer_type = "credits"
    THEN [ags EXCEPT ![w].credits = @ - offer_amount,
                     ![t].credits = @ + offer_amount]
    ELSE [ags EXCEPT ![w].inventory =
                         DictSet(@, offer_resource, PyGet(@, offer_resource, 0) - offer_amount),
                     ![t].inventory =
                         DictSet(@, offer_resource, PyGet(@, offer_resource, 0) + offer_amount)]

\* a want leg that credits the initiator and forgets to debit the target
TransferWantOneSided(ags, w, t, want_type, want_amount, want_resource) ==
    IF want_type = "credits"
    THEN [ags EXCEPT ![w].credits = @ + want_amount]
    ELSE [ags EXCEPT ![w].inventory =
                         DictSet(@, want_resource, PyGet(@, want_resource, 0) + want_amount)]

\* "Transfer to agent"
TransferWant(ags, w, t, want_type, want_amount, want_resource) ==
    IF want_type = "credits"
    THEN [ags EXCEPT ![t].credits = @ - want_amount,
                     ![w].credits = @ + want_amount]
    ELSE [ags EXCEPT ![t].inventory =
                         DictSet(@, want_resource, PyGet(@, want_resource, 0) - want_amount),
                     ![w].inventory =
                         DictSet(@, want_resource, PyGet(@, want_resource, 0) + want_amount)]

\* a negotiate that costs no AP
DeductNoNegotiateAP(E, w) == E

\* "Deduct AP" of _handle_negotiate, ahead of the acceptance roll
DeductNegotiateAP(E, w) ==
    [E EXCEPT !.agents[w].energy = @ - AP_COSTS["negotiate"]]

\* RulesEngine._handle_negotiate
_handle_negotiate(E, w, params, tbl) ==
    LET rejection == NegotiateRejection(E, w, params)
    IN IF rejection # None
       THEN _fail(E, w, "negotiate", params, rejection) @@ [used |-> {}]
       ELSE
       LET agent == E.agents[w]
           t == params.target
           target == E.agents[t]
           offer_type == PyGet(params, "offer_type", "credits")
           offer_amount == PyGet(params, "offer_amount", 0)
           offer_resource == PyGet(params, "offer_resource", None)
           want_type == PyGet(params, "want_type", "credits")
           want_amount == PyGet(params, "want_amount", 0)
           want_resource == PyGet(params, "want_resource", None)
           prices == E.state.market_prices
           offer_value == IF offer_type = "credits" THEN offer_amount
                          ELSE offer_amount * PyGet(prices, offer_resource, 10)
           want_value == IF want_type = "credits" THEN want_amount
                         ELSE want_amount * PyGet(prices, want_resource, 10)
           seed == PySeed(E.state.state_hash, 0, <<w, t>>)
           u == Variate(tbl, seed, 1)
           E1 == DeductNegotiateAP(E, w)
       IN (IF Accepted(offer_value, want_value, agent.reputation, u)
           THEN LET traded == TransferWant(
                                  TransferOffer(E1.agents, w, t, offer_type,
                                                offer_amount, offer_resource),
                                  w, t, want_type, want_amount, want_resource)
                IN _success([E1 EXCEPT !.agents =
                                [traded EXCEPT ![w].reputation = Min(200, @ + 3),
                                               ![t].reputation = Min(200, @ + 3)]],
                            w, "negotiate", params, "Trade accepted!",
                            [accepted |-> TRUE, partner |-> target.name])
           ELSE _success(E1, w, "negotiate", params, "Trade rejected",
                         [accepted |-> FALSE, partner |-> target.name]))
          @@ [used |-> {Append(seed, 1)}]

\* an AP check that lets every action through
InsufficientAPNever(agent, action) == FALSE

\* the AP check of execute_action
InsufficientAP(agent, action) ==
    action # "rest" /\ agent.energy < PyGet(AP_COSTS, action, 0)

\* RulesEngine.execute_action
execute_action(E, w, action, params, tbl) ==
    IF InsufficientAP(E.agents[w], action)
    THEN _fail(E, w, action, params, "Insufficient AP") @@ [used |-> {}]
    ELSE CASE action = "move" -> _handle_move(E, w, params) @@ [used |-> {}]
           [] action = "harvest" -> _handle_harvest(E, w, params, tbl)
           [] action = "rest" -> _handle_rest(E, w, params) @@ [used |-> {}]
           [] action = "place_order" -> _handle_place_order(E, w, params) @@ [used |-> {}]
           [] action = "raid" -> _handle_raid(E, w, params, tbl)
           [] action = "negotiate" -> _handle_negotiate(E, w, params, tbl)
           [] OTHER -> _fail(E, w, action, params, "Unknown action") @@ [used |-> {}]

----------------------------------------------------------------------------
(* The calls made on the engine, and what they are made with *)

Wallets == {"a", "b"}

\* a wallet that never registers
Stranger == "c"

Names == {"Ann", "Bo"}

\* params of move: no target, a region, something that is no region
MoveParams == {EmptyDict} \cup {[target |-> t] : t \in Region \cup {"swamp"}}

Quantities == {-100, 2, 70}

\* params of place_order
PlaceOrderParams ==
    {[side |-> "sell"],
     [resource |-> "gold", side |-> "sell", quantity |-> 1],
     [resource |-> "iron", side |-> "hold"],
     [resource |-> "wood", side |-> "sell"],
     [resource |-> "fish", side |-> "buy", quantity |-> 125]}
    \cup {[resource |-> "iron", side |-> sd, quantity |-> q] :
              sd \in {"buy", "sell"}, q \in Quantities}

\* params of raid
RaidParams == {EmptyDict} \cup {[target |-> t] : t \in Wallets \cup {Stranger}}

\* what a negotiate proposes
Proposals ==
    {EmptyDict,
     [offer_type |-> "credits", offer_amount |-> 50,
      want_type |-> "resource", want_amount |-> 2, want_resource |-> "iron"],
     [offer_type |-> "credits", offer_amount |-> 5000],
     [offer_type |-> "resource", offer_amount |-> 2, offer_resource |-> "iron",
      want_type |-> "credits", want_amount |-> 40],
     [offer_type |-> "resource", offer_amount |-> 1],
     [offer_type |-> "credits", offer_amount |-> -1510],
     [offer_type |-> "credits", offer_amount |-> 10,
      want_type |-> "credits", want_amount |-> 5000],
     [offer_type |-> "credits", offer_amount |-> 10,
      want_type |-> "credits", want_amount |-> 100],
     [offer_type |-> "gift", offer_amount |-> 5, offer_resource |-> "iron",
      want_type |-> "credits", want_amount |-> 1]}

\* params of negotiate by w
NegotiateParams(w) ==
    {EmptyDict, [target |-> w], [target |-> Stranger]}
    \cup {pr @@ [target |-> t] : pr \in Proposals, t \in Wallets \ {w}}

\* random() variates, over 200
RollSet == {0, 110, 199}

\* random() variates on either side of 0.20 and of 0.90, over 200
EdgeRolls == {39, 40, 179, 180}

\* the reputations an agent can have: max(0, ...) and min(200, ...) keep them
\* in 0..200
Reputations == 0..200

\* the reputations the other agent is given
RivalReputations == {0, 50, 100, 150, 200}

\* uniform(0.10, 0.25) variates, over 1000
StealSet == {100, 250}

\* randint(1, 5) variates
HarvestSet == 1..5

\* what check_events can trigger in one tick: kind -> id suffix
EventDraws ==
    {EmptyDict, [trade_boom |-> 1000], [plague |-> 9999], [storm |-> 1000],
     [mine_collapse |-> 1000], [pirates |-> 1000, festival |-> 9999]}

\* uniform(0.92, 1.08) variates of one tick, in percent, per resource
NoiseDraws ==
    {[iron |-> 100, wood |-> 100, fish |-> 100],
     [iron |-> 108, wood |-> 92, fish |-> 100]}

\* a tick without price noise
CalmNoise == [iron |-> 100, wood |-> 100, fish |-> 100]

\* what the price feed knows: nothing, or MON/USD 1% down, or 5% up
PythFeeds == {<<>>, <<-1>>, <<5>>}

\* the values the variate behind key can take
VariateSet(key) ==
    IF key[1] = "sha256" THEN EventDraws
    ELSE IF Len(key[4]) = 1 THEN HarvestSet
    ELSE IF key[5] = 1 THEN RollSet
    ELSE StealSet

\* the tables that agree with tbl and also hold a variate for each of keys
RECURSIVE Extensions(_, _)
Extensions(tbl, keys) ==
    IF keys \subseteq DOMAIN tbl THEN {tbl}
    ELSE LET k == CHOOSE y \in keys \ DOMAIN tbl : TRUE
         IN UNION {Extensions(DictSet(tbl, k, v), keys) : v \in VariateSet(k)}

Restrict(tbl, keep) == [k \in keep |-> tbl[k]]

\* the variates a call of execute_action may consume
CandidateKeys(E, w, action, params) ==
    LET t == PyGet(params, "target", None)
    IN CASE action = "harvest" ->
                {Append(PySeed(E.state.state_hash, E.state.tick, <<w>>), 2)}
         [] action = "raid" ->
                {Append(PySeed(E.state.state_hash, E.state.tick, <<w, t>>), 1),
                 Append(PySeed(E.state.state_hash, E.state.tick, <<w, t>>), 2)}
         [] action = "negotiate" ->
                {Append(PySeed(E.state.state_hash, 0, <<w, t>>), 1)}
         [] OTHER -> {}

----------------------------------------------------------------------------
(* What the storage holds when the engine is constructed: nothing, or what  *)
(* an earlier engine instance saved at the end of a process_tick            *)

\* Saved at tick 1. a moved to the market, bought 3 iron at 15 and used up 32
\* AP on further orders and moves; b moved dock-mine-market and used up all
\* its AP on orders that failed for want of inventory
StoredMarket ==
    [a |-> [Agent("a", "Ann", 0) EXCEPT !.region = "market", !.energy = 60,
                !.credits = 955, !.inventory = [iron |-> 3]],
     b |-> [Agent("b", "Bo", 0) EXCEPT !.region = "market", !.energy = 5]]

\* Saved at tick 1. a moved to the mine and harvested 2 iron; b walked
\* between dock and mine until 35 AP were left
StoredMine ==
    [a |-> [Agent("a", "Ann", 0) EXCEPT !.region = "mine", !.energy = 90,
                !.inventory = [iron |-> 2]],
     b |-> [Agent("b", "Bo", 0) EXCEPT !.region = "mine", !.energy = 40]]

\* Saved at tick 1. a moved to the forest, harvested 1 wood and rested; b
\* stayed at the dock and fished until 8 AP were left
StoredForest ==
    [a |-> [Agent("a", "Ann", 0) EXCEPT !.region = "forest",
                !.inventory = [wood |-> 1]],
     b |-> [Agent("b", "Bo", 0) EXCEPT !.energy = 8, !.inventory = [fish |-> 24]]]

\* Saved at tick 1. a and b as in StoredMine, and a third agent d that moved
\* to the mine
StoredCrowd ==
    StoredMine @@ [d |-> [Agent("d", "Dee", 0) EXCEPT !.region = "mine", !.energy = 95]]

\* the storage as _save_to_database leaves it for an engine in that state
SavedBy(tick, ags) ==
    _save_to_database(_compute_state_hash(
        [state |-> [WorldState EXCEPT !.tick = tick], agents |-> ags,
         ledger |-> <<>>, db |-> EmptyDatabase])).db

\* storages that were up when the engine was constructed and raise since
FailingDatabases ==
    {[EmptyDatabase EXCEPT !.raises = TRUE],
     [SavedBy(1, StoredMine) EXCEPT !.raises = TRUE]}

Databases ==
    {NoDatabase, EmptyDatabase, SavedBy(1, StoredMarket), SavedBy(1, StoredMine),
     SavedBy(1, StoredForest)}

----------------------------------------------------------------------------
(* The state machine *)

Eng == [state |-> state, agents |-> agents, ledger |-> ledger, db |-> db]

Commit(E) ==
    /\ state' = E.state
    /\ agents' = E.agents
    /\ ledger' = E.ledger
    /\ db' = E.db

\* the engine constructed on one of databases
InitOn(databases) ==
    \E database \in databases :
        LET E == WorldEngine(database)
        IN /\ state = E.state
           /\ agents = E.agents
           /\ ledger = E.ledger
           /\ db = E.db
           /\ replica = E
           /\ before = E
           /\ result = [call |-> [op |-> "WorldEngine"], ret |-> None]
           /\ rng = EmptyDict
           /\ ops = 0

Init == InitOn(Databases)

\* POST /register -> WorldEngine.register_agent
Register(mirror) ==
    /\ ops < MaxOps
    /\ \E w \in Wallets, name \in Names :
       \E out \in {register_agent(Eng, w, name)} :
           /\ Commit(out.eng)
           /\ replica' = IF mirror THEN register_agent(replica, w, name).eng ELSE replica
           /\ before' = Eng
           /\ result' = [call |-> [op |-> "register_agent", wallet |-> w, name |-> name],
                         ret |-> out.ret]
           /\ rng' = rng
           /\ ops' = ops + 1

\* the variate tables a call of execute_action may meet
Tables(w, action, params, mirror) ==
    Extensions(rng, CandidateKeys(Eng, w, action, params)
                    \cup (IF mirror THEN CandidateKeys(replica, w, action, params)
                          ELSE {}))

\* what a call of execute_action does to the engine and, when mirrored, to
\* the replica
Execute(w, action, params, tbl, mirror) ==
    LET out == execute_action(Eng, w, action, params, tbl)
    IN IF mirror
       THEN out @@ [eng2 |-> execute_action(replica, w, action, params, tbl)]
       ELSE out @@ [eng2 |-> [eng |-> replica, used |-> {}]]

\* the engine after the call, the call and its return value, the variates
Returned(w, action, params, tbl, out) ==
    /\ Commit(out.eng)
    /\ replica' = out.eng2.eng
    /\ before' = Eng
    /\ result' = [call |-> [op |-> "execute_action", wallet |-> w,
                            action |-> action, params |-> params],
                  ret |-> out.ret]
    /\ rng' = Restrict(tbl, DOMAIN rng \cup out.used \cup out.eng2.used)
    /\ ops' = ops + 1

\* POST /action -> RulesEngine.execute_action, for a registered wallet
Move(mirror) ==
    /\ ops < MaxOps
    /\ \E w \in DOMAIN agents, params \in MoveParams :
       \E tbl \in Tables(w, "move", params, mirror) :
       \E out \in {Execute(w, "move", params, tbl, mirror)} :
           /\ Returned(w, "move", params, tbl, out)

Harvest(mirror) ==
    /\ ops < MaxOps
    /\ \E w \in DOMAIN agents :
       \E tbl \in Tables(w, "harvest", EmptyDict, mirror) :
       \E out \in {Execute(w, "harvest", EmptyDict, tbl, mirror)} :
           /\ Returned(w, "harvest", EmptyDict, tbl, out)

Rest(mirror) ==
    /\ ops < MaxOps
    /\ \E w \in DOMAIN agents :
       \E tbl \in Tables(w, "rest", EmptyDict, mirror) :
       \E out \in {Execute(w, "rest", EmptyDict, tbl, mirror)} :
           /\ Returned(w, "rest", EmptyDict, tbl, out)

PlaceOrder(mirror) ==
    /\ ops < MaxOps
    /\ \E w \in DOMAIN agents, params \in PlaceOrderParams :
       \E tbl \in Tables(w, "place_order", params, mirror) :
       \E out \in {Execute(w, "place_order", params, tbl, mirror)} :
           /\ Returned(w, "place_order", params, tbl, out)

Raid(mirror) ==
    /\ ops < MaxOps
    /\ \E w \in DOMAIN agents, params \in RaidParams :
       \E tbl \in Tables(w, "raid", params, mirror) :
       \E out \in {Execute(w, "raid", params, tbl, mirror)} :
           /\ Returned(w, "raid", params, tbl, out)

Negotiate(mirror) ==
    /\ ops < MaxOps
    /\ \E w \in DOMAIN agents :
       \E params \in NegotiateParams(w) :
       \E tbl \in Tables(w, "negotiate", params, mirror) :
       \E out \in {Execute(w, "negotiate", params, tbl, mirror)} :
           /\ Returned(w, "negotiate", params, tbl, out)

UnknownAction(mirror) ==
    /\ ops < MaxOps
    /\ \E w \in DOMAIN agents :
       \E tbl \in Tables(w, "dance", EmptyDict, mirror) :
       \E out \in {Execute(w, "dance", EmptyDict, tbl, mirror)} :
           /\ Returned(w, "dance", EmptyDict, tbl, out)

\* one call of process_tick on the engine and, when mirrored, on the replica
TickStep(tbl, noise, noise2, feed, mirror) ==
    \E out \in {process_tick(Eng, tbl[generate_seed(state.tick, state.state_hash)],
                             noise, get_price_effects(feed))} :
        /\ Commit(out.eng)
        /\ replica' =
               IF mirror
               THEN process_tick(replica,
                        tbl[generate_seed(replica.state.tick, replica.state.state_hash)],
                        noise2, get_price_effects(feed)).eng
               ELSE replica
        /\ before' = Eng
        /\ result' = [call |-> [op |-> "process_tick", noise |-> noise, feed |-> feed],
                      ret |-> out.ret]
        /\ rng' = tbl
        /\ ops' = ops + 1

\* the scheduler -> WorldEngine.process_tick
ProcessTick(mirror) ==
    /\ ops < MaxOps
    /\ \E tbl \in Extensions(rng,
                     {generate_seed(state.tick, state.state_hash)}
                     \cup (IF mirror
                           THEN {generate_seed(replica.state.tick, replica.state.state_hash)}
                           ELSE {})) :
       \E noise \in NoiseDraws, feed \in PythFeeds :
       \E noise2 \in (IF mirror THEN NoiseDraws ELSE {noise}) :
           TickStep(tbl, noise, noise2, feed, mirror)

\* the scheduler left to itself for MaxTicks ticks: no price noise, no price
\* feed, any events
Ticking ==
    /\ ops < MaxTicks
    /\ \E tbl \in Extensions(rng, {generate_seed(state.tick, state.state_hash)}) :
           TickStep(tbl, CalmNoise, CalmNoise, <<>>, FALSE)

Next ==
    \/ Register(FALSE)
    \/ Move(FALSE)
    \/ Harvest(FALSE)
    \/ Rest(FALSE)
    \/ PlaceOrder(FALSE)
    \/ Raid(FALSE)
    \/ Negotiate(FALSE)
    \/ UnknownAction(FALSE)
    \/ ProcessTick(FALSE)

Spec == Init /\ [][Next]_vars

\* Two engine instances fed the same calls: the seeded variates and the price
\* feed are shared, each instance draws its own noise from the module-level
\* generator
NextReplay ==
    \/ Register(TRUE)
    \/ Move(TRUE)
    \/ Harvest(TRUE)
    \/ Rest(TRUE)
    \/ PlaceOrder(TRUE)
    \/ Raid(TRUE)
    \/ Negotiate(TRUE)
    \/ UnknownAction(TRUE)
    \/ ProcessTick(TRUE)

SpecReplay == Init /\ [][NextReplay]_vars

\* The same calls on an engine whose storage raises
InitStorageFails == InitOn(FailingDatabases)

SpecStorageFails == InitStorageFails /\ [][Next]_vars

\* Ticks only
NextTicks == Ticking

SpecTicks == Init /\ [][NextTicks]_vars

\* The raid roll against every pair of reputations: two agents in the mine
\* with full energy, and one raid with a roll next to the ends of the clamp
MaxRaids == 1

\* a and b in the mine with reputations ra and rb
Rivals(ra, rb) ==
    [a |-> [Agent("a", "Ann", 0) EXCEPT !.region = "mine", !.reputation = ra],
     b |-> [Agent("b", "Bo", 0) EXCEPT !.region = "mine", !.reputation = rb]]

InitRaidOdds ==
    \E ra \in Reputations, rb \in RivalReputations :
        LET E == _compute_state_hash(
                     [state |-> WorldState, agents |-> Rivals(ra, rb),
                      ledger |-> <<>>, db |-> NoDatabase])
        IN /\ state = E.state
           /\ agents = E.agents
           /\ ledger = E.ledger
           /\ db = E.db
           /\ replica = E
           /\ before = E
           /\ result = [call |-> [op |-> "WorldEngine"], ret |-> None]
           /\ rng = EmptyDict
           /\ ops = 0

\* the tables that agree with tbl and hold one of values behind key
Draws(tbl, key, values) ==
    IF key \in DOMAIN tbl THEN {tbl} ELSE {DictSet(tbl, key, v) : v \in values}

\* POST /action -> RulesEngine.execute_action: a raid on the other agent
RaidOnEdge ==
    /\ ops < MaxRaids
    /\ \E w \in DOMAIN agents :
       \E t \in DOMAIN agents \ {w} :
       \E rolled \in Draws(rng, Append(PySeed(state.state_hash, state.tick, <<w, t>>), 1),
                           EdgeRolls) :
       \E tbl \in Draws(rolled, Append(PySeed(state.state_hash, state.tick, <<w, t>>), 2),
                        StealSet) :
       \E out \in {Execute(w, "raid", [target |-> t], tbl, FALSE)} :
           /\ Returned(w, "raid", [target |-> t], tbl, out)

NextRaidOdds == RaidOnEdge

SpecRaidOdds == InitRaidOdds /\ [][NextRaidOdds]_vars

\* POST /action -> RulesEngine.execute_action: a negotiate between the two
RivalNegotiate ==
    /\ ops < MaxRaids
    /\ \E w \in DOMAIN agents :
       \E params \in NegotiateParams(w) :
       \E tbl \in Tables(w, "negotiate", params, FALSE) :
       \E out \in {Execute(w, "negotiate", params, tbl, FALSE)} :
           /\ Returned(w, "negotiate", params, tbl, out)

\* Two agents of any reputations, and one raid or negotiate between them
NextRivals == RaidOnEdge \/ RivalNegotiate

SpecRivals == InitRaidOdds /\ [][NextRivals]_vars

\* A feud: from the stored mine state, a raids b and rests, for MaxFeud calls
MaxFeud == 14

InitFeud == InitOn({SavedBy(1, StoredMine)})

FeudRaid ==
    /\ ops < MaxFeud
    /\ \E tbl \in Tables("a", "raid", [target |-> "b"], FALSE) :
       \E out \in {Execute("a", "raid", [target |-> "b"], tbl, FALSE)} :
           /\ Returned("a", "raid", [target |-> "b"], tbl, out)

FeudRest ==
    /\ ops < MaxFeud
    /\ \E tbl \in Tables("a", "rest", EmptyDict, FALSE) :
       \E out \in {Execute("a", "rest", EmptyDict, tbl, FALSE)} :
           /\ Returned("a", "rest", EmptyDict, tbl, out)

NextFeud == FeudRaid \/ FeudRest

SpecFeud == InitFeud /\ [][NextFeud]_vars

\* The same calls with a third agent standing by
InitCrowd == InitOn({SavedBy(1, StoredCrowd)})

SpecCrowd == InitCrowd /\ [][Next]_vars

\* Tit for tat: from the stored mine state, a and b raid each other and rest,
\* with raid rolls on either side of the 60% base
MaxRevenge == 4

\* random() variates at 0 and just above 0.60, over 200
CloseRolls == {0, 125}

RevengeRaid ==
    /\ ops < MaxRevenge
    /\ \E w \in DOMAIN agents :
       \E t \in DOMAIN agents \ {w} :
       \E rolled \in Draws(rng, Append(PySeed(state.state_hash, state.tick, <<w, t>>), 1),
                           CloseRolls) :
       \E tbl \in Draws(rolled, Append(PySeed(state.state_hash, state.tick, <<w, t>>), 2),
                        StealSet) :
       \E out \in {Execute(w, "raid", [target |-> t], tbl, FALSE)} :
           Returned(w, "raid", [target |-> t], tbl, out)

RevengeRest ==
    /\ ops < MaxRevenge
    /\ \E w \in DOMAIN agents :
       \E tbl \in Tables(w, "rest", EmptyDict, FALSE) :
       \E out \in {Execute(w, "rest", EmptyDict, tbl, FALSE)} :
           Returned(w, "rest", EmptyDict, tbl, out)

NextRevenge == RevengeRaid \/ RevengeRest

SpecRevenge == InitFeud /\ [][NextRevenge]_vars

\* A season of ticks long enough for every kind of event to run out: events
\* are triggered in the first EventfulTicks ticks only, the longest, a plague,
\* lasts 15 ticks
MaxSeason == 17

EventfulTicks == 2

\* the scheduler -> WorldEngine.process_tick, without price noise or feed
Season ==
    /\ ops < MaxSeason
    /\ \E tbl \in Draws(rng, generate_seed(state.tick, state.state_hash),
                        IF ops < EventfulTicks THEN EventDraws ELSE {EmptyDict}) :
           TickStep(tbl, CalmNoise, CalmNoise, <<>>, FALSE)

NextSeason == Season

SpecSeason == Init /\ [][NextSeason]_vars

----------------------------------------------------------------------------
(* Properties. The last call is result.call, the engine it was made on is   *)
(* before, the engine it left is (state, agents, ledger, db).               *)

IsAction(name) ==
    result.call.op = "execute_action" /\ result.call.action = name

\* C1: after every completed operation state_hash is the digest of the current
\* tick, prices, active event ids and every registered agent's region and
\* inventory count. register_agent adds an agent and leaves the hash alone.
HashIsDigest == state.state_hash = StateDigest(state, agents)

\* C2: the same calls on two instances started alike leave the same
\* state_hash and the same inventories and credits. The price noise of
\* process_tick is not a function of the calls.
ReplayAgrees ==
    /\ replica.state.state_hash = state.state_hash
    /\ DOMAIN replica.agents = DOMAIN agents
    /\ \A w \in DOMAIN agents :
          /\ replica.agents[w].inventory = agents[w].inventory
          /\ replica.agents[w].credits = agents[w].credits

\* C3: after any sequence of calls every agent has 0 <= energy <= max_energy
EnergyWithinBounds ==
    \A w \in DOMAIN agents :
        0 <= agents[w].energy /\ agents[w].energy <= agents[w].max_energy

\* C3 at work: a tick whose recovery was cut at max_energy
EnergyCapped ==
    /\ result.call.op = "process_tick"
    /\ \E w \in DOMAIN agents :
          /\ before.agents[w].energy + result.ret.ap_recovery > agents[w].max_energy
          /\ agents[w].energy = agents[w].max_energy

\* C4: after any number of ticks every market price is an integer in [3, 50]
PricesWithinBounds ==
    \A r \in DOMAIN state.market_prices : state.market_prices[r] \in 3..50

\* C4 at work: a tick that moved a price onto the floor, with an event active
\* and the price feed known
PriceOnFloor ==
    /\ result.call.op = "process_tick"
    /\ state.active_events # <<>>
    /\ \E r \in DOMAIN state.market_prices :
          state.market_prices[r] = 3 /\ before.state.market_prices[r] > 3

\* C5: process_tick advances tick by exactly 1, no other call changes it
TickAdvancesByOne ==
    state.tick = before.state.tick
                 + (IF result.call.op = "process_tick" THEN 1 ELSE 0)

\* C5 at work: a second tick in a row
TickedTwice ==
    /\ result.call.op = "process_tick"
    /\ ops = 2
    /\ ledger = <<>>
    /\ state.tick = before.state.tick + 1

\* what negotiate params p move out of the initiator's credits and into them,
\* and out of its stock of resource r and into it
OfferedCredits(p) ==
    IF PyGet(p, "offer_type", "credits") = "credits"
    THEN PyGet(p, "offer_amount", 0) ELSE 0

WantedCredits(p) ==
    IF PyGet(p, "want_type", "credits") = "credits"
    THEN PyGet(p, "want_amount", 0) ELSE 0

OfferedResource(p, r) ==
    IF PyGet(p, "offer_type", "credits") # "credits"
       /\ PyGet(p, "offer_resource", None) = r
    THEN PyGet(p, "offer_amount", 0) ELSE 0

WantedResource(p, r) ==
    IF PyGet(p, "want_type", "credits") # "credits"
       /\ PyGet(p, "want_resource", None) = r
    THEN PyGet(p, "want_amount", 0) ELSE 0

AcceptedNegotiate ==
    IsAction("negotiate") /\ result.ret.success /\ result.ret.data.accepted

\* C6: an accepted negotiate moves exactly the offer from the initiator to the
\* target and exactly the want back, so the two agents' credits and their
\* stock of each resource add up to what they did before the call
NegotiateConserves ==
    AcceptedNegotiate =>
        LET w == result.call.wallet
            p == result.call.params
            t == p.target
            stock(E, x, r) == PyGet(E.agents[x].inventory, r, 0)
            now == Eng
        IN /\ agents[w].credits
                = before.agents[w].credits - OfferedCredits(p) + WantedCredits(p)
           /\ agents[t].credits
                = before.agents[t].credits + OfferedCredits(p) - WantedCredits(p)
           /\ \A r \in DOMAIN agents[w].inventory \cup DOMAIN agents[t].inventory
                       \cup Resource :
                 /\ stock(now, w, r) = stock(before, w, r)
                        - OfferedResource(p, r) + WantedResource(p, r)
                 /\ stock(now, t, r) = stock(before, t, r)
                        + OfferedResource(p, r) - WantedResource(p, r)

\* C6 at work: an accepted exchange of a resource for credits
ResourceSoldForCredits ==
    /\ AcceptedNegotiate
    /\ OfferedResource(result.call.params, "iron") > 0
    /\ WantedCredits(result.call.params) > 0

\* the initiator w does not hold what params p offer, or the target does not
\* hold what they want, on engine E
LacksOffered(E, w, p) ==
    \/ /\ PyGet(p, "offer_type", "credits") = "credits"
       /\ E.agents[w].credits < PyGet(p, "offer_amount", 0)
    \/ /\ PyGet(p, "offer_type", "credits") = "resource"
       /\ PyGet(E.agents[w].inventory, PyGet(p, "offer_resource", None), 0)
              < PyGet(p, "offer_amount", 0)

LacksWanted(E, p) ==
    /\ PyGet(p, "target", None) \in DOMAIN E.agents
    /\ \/ /\ PyGet(p, "want_type", "credits") = "credits"
          /\ E.agents[p.target].credits < PyGet(p, "want_amount", 0)
       \/ /\ PyGet(p, "want_type", "credits") = "resource"
          /\ PyGet(E.agents[p.target].inventory, PyGet(p, "want_resource", None), 0)
                 < PyGet(p, "want_amount", 0)

\* C7: a negotiate whose initiator lacks the offered credits or resource, or
\* whose target lacks the wanted credits or resource, returns success=false
\* and leaves every field of every agent, the initiator's energy included,
\* as it was
UnaffordableNegotiateRefused ==
    IsAction("negotiate")
    /\ (LacksOffered(before, result.call.wallet, result.call.params)
        \/ LacksWanted(before, result.call.params))
    => result.ret.success = FALSE /\ agents = before.agents

\* C7 at work: the target lacks the wanted resource, and the initiator holds
\* the offer and the AP a negotiate costs
TargetLackedWanted ==
    /\ IsAction("negotiate")
    /\ LacksWanted(before, result.call.params)
    /\ ~LacksOffered(before, result.call.wallet, result.call.params)
    /\ result.call.params.target # result.call.wallet
    /\ before.agents[result.call.wallet].region
           = before.agents[result.call.params.target].region
    /\ before.agents[result.call.wallet].energy >= AP_COSTS["negotiate"]

\* the target of raid params p is a distinct registered agent in the region
\* of w, and that region is not the market, on engine E
RaidAllowed(E, w, p) ==
    /\ PyGet(p, "target", None) \in DOMAIN E.agents
    /\ p.target # w
    /\ E.agents[p.target].region = E.agents[w].region
    /\ E.agents[w].region # "market"

\* C8: a raid on anything but a distinct registered agent of the same region
\* outside the market returns success=false and leaves the credits,
\* reputation and energy of attacker and target as they were
IllegalRaidRefused ==
    IsAction("raid") /\ ~RaidAllowed(before, result.call.wallet, result.call.params)
    => /\ result.ret.success = FALSE
       /\ \A x \in {result.call.wallet, PyGet(result.call.params, "target", None)}
                   \cap DOMAIN agents :
             /\ agents[x].credits = before.agents[x].credits
             /\ agents[x].reputation = before.agents[x].reputation
             /\ agents[x].energy = before.agents[x].energy

\* C8 at work: a raid in the market, by an attacker with the AP a raid costs,
\* on another agent that is there
RaidInMarket ==
    /\ IsAction("raid")
    /\ PyGet(result.call.params, "target", None) \in DOMAIN agents
    /\ result.call.params.target # result.call.wallet
    /\ before.agents[result.call.wallet].region = "market"
    /\ before.agents[result.call.params.target].region = "market"
    /\ before.agents[result.call.wallet].energy >= AP_COSTS["raid"]

\* the last call was an action other than rest by an agent with less energy
\* than the action costs
ShortOfAP ==
    /\ result.call.op = "execute_action"
    /\ result.call.action # "rest"
    /\ before.agents[result.call.wallet].energy
           < PyGet(AP_COSTS, result.call.action, 0)

\* C9: an action other than rest by an agent whose energy is below its AP
\* cost returns success=false and changes nothing but the ledger, which gets
\* one entry: agents, tick, prices, events and state_hash stay
ShortOfAPOnlyLogged ==
    ShortOfAP
    => /\ result.ret.success = FALSE
       /\ agents = before.agents
       /\ state = before.state
       /\ Len(ledger) = Len(before.ledger) + 1
       /\ SubSeq(ledger, 1, Len(before.ledger)) = before.ledger
       /\ db.agents = before.db.agents
       /\ db.world_state = before.db.world_state
       /\ db.events = before.db.events

\* C9 at work: a negotiate that every other check would let through
ShortOfAPForNegotiate ==
    /\ ShortOfAP
    /\ result.call.action = "negotiate"
    /\ NegotiateRejection(before, result.call.wallet, result.call.params) = None

\* C10: every agent's credits stay >= 0, whatever the sign of the quantity of
\* a place_order and of the amounts of a negotiate. A sell of a negative
\* quantity passes the inventory check and has a negative revenue.
CreditsNonNegative ==
    \A w \in DOMAIN agents : agents[w].credits >= 0

\* every quantity and amount that params p carry is a positive integer
PositiveAmounts(p) ==
    \A k \in {"quantity", "offer_amount", "want_amount"} \cap DOMAIN p : p[k] > 0

\* C11: when every quantity and amount passed so far is positive, whatever
\* strings offer_type and want_type are, every quantity of every inventory is
\* >= 0. An offer_type other than "credits" and "resource" is not validated
\* and is transferred as a resource.
InventoryNonNegative ==
    (\A i \in 1..Len(ledger) : PositiveAmounts(ledger[i].params))
    => \A w \in DOMAIN agents :
          \A r \in DOMAIN agents[w].inventory : agents[w].inventory[r] >= 0

\* C12: between operations active_events holds no event with
\* started_tick + duration <= tick. process_tick filters on the tick it starts
\* with and then advances it.
NoExpiredEvent ==
    \A i \in 1..Len(state.active_events) :
        state.active_events[i].started_tick + state.active_events[i].duration
            > state.tick

\* C13: every validation failure other than a sell rejected for insufficient
\* inventory leaves the acting agent as it was. place_order deducts its AP
\* ahead of the funds check and of the side check.
ValidationFailureKeepsAgent ==
    /\ result.call.op = "execute_action"
    /\ ~ShortOfAP
    /\ result.ret.success = FALSE
    /\ result.ret.message # "Insufficient inventory"
    => agents[result.call.wallet] = before.agents[result.call.wallet]

\* the last call was a sell by an agent in the market with the AP for it, of
\* more of a listed resource than it holds
SellShort ==
    /\ IsAction("place_order")
    /\ ~ShortOfAP
    /\ before.agents[result.call.wallet].region = "market"
    /\ PyGet(result.call.params, "side", None) = "sell"
    /\ PyGet(result.call.params, "resource", None) \in DOMAIN before.state.market_prices
    /\ PyGet(before.agents[result.call.wallet].inventory,
             result.call.params.resource, 0)
           < PyGet(result.call.params, "quantity", 1)

\* the last call was a move with the AP for it and no target, a target that is
\* no region, or the region the agent is in
MoveRejected ==
    /\ IsAction("move")
    /\ ~ShortOfAP
    /\ PyGet(result.call.params, "target", None)
           \in {None, before.agents[result.call.wallet].region} \cup (STRING \ Region)

\* the last call was a harvest with the AP for it in a region without yield
HarvestRejected ==
    /\ IsAction("harvest")
    /\ ~ShortOfAP
    /\ before.agents[result.call.wallet].region \notin {"mine", "forest", "dock"}

\* C14: a sell rejected for insufficient inventory costs the agent 3 AP, a
\* move rejected for its target and a harvest rejected for its region cost
\* none
RejectedSellPaysAP ==
    LET spent == before.agents[result.call.wallet].energy
                     - agents[result.call.wallet].energy
    IN /\ SellShort => result.ret.success = FALSE /\ spent = 3
       /\ MoveRejected \/ HarvestRejected
              => result.ret.success = FALSE /\ spent = 0

\* C14 at work: a rejected sell after a rejected move or harvest
RejectedSellAfterRejection ==
    /\ SellShort
    /\ Len(ledger) = 2
    /\ ledger[1].action \in {"move", "harvest"}
    /\ ledger[1].success = FALSE
    /\ ledger[1].message # "Insufficient AP"

\* C15: when the storage raises during the ledger write of an action or the
\* snapshot save of a tick, the call still returns its normal result and
\* state_hash stays the digest of the in-memory state if it was before.
\* Neither _log_action nor _save_to_database catches the exception.
StorageFailureTolerated ==
    result.call.op \in {"execute_action", "process_tick"}
    => /\ "raised" \notin DOMAIN result.ret
       /\ before.state.state_hash = StateDigest(before.state, before.agents)
              => state.state_hash = StateDigest(state, agents)

\* C16: when a state-mutating action has returned, the stored agent records
\* equal the in-memory agents. Neither _success nor the action route hands
\* an agent to the storage; only register_agent and process_tick do.
StoredAgentsCurrent ==
    result.call.op = "execute_action" /\ db.up /\ result.ret.success
    => \A w \in DOMAIN agents :
          w \in DOMAIN db.agents /\ db.agents[w] = to_dict(agents[w])

\* C17: every execute_action call, whatever its outcome, appends exactly one
\* ledger entry with the tick, the wallet, the action, the params, the
\* success flag and the message of the call, and no entry of a wallet comes
\* ahead of its register entry, of which there is at most one
OneLedgerEntryPerCall ==
    /\ result.call.op = "execute_action"
       => /\ Len(ledger) = Len(before.ledger) + 1
          /\ SubSeq(ledger, 1, Len(before.ledger)) = before.ledger
          /\ LET entry == ledger[Len(ledger)]
             IN /\ entry.tick = state.tick
                /\ entry.wallet = result.call.wallet
                /\ entry.action = result.call.action
                /\ entry.params = result.call.params
                /\ entry.success = result.ret.success
                /\ entry.message = result.ret.message
    /\ \A i, j \in 1..Len(ledger) :
          i < j /\ ledger[j].action = "register"
          => ledger[i].wallet # ledger[j].wallet

\* C17 at work: an unknown action right after the agent's registration
UnknownActionLogged ==
    /\ IsAction("dance")
    /\ Len(ledger) = 2
    /\ ledger[1].action = "register"
    /\ ledger[1].wallet = result.call.wallet
    /\ ledger[2].success = FALSE

\* the last call was register_agent for a wallet that was registered
Reregistered ==
    /\ result.call.op = "register_agent"
    /\ result.call.wallet \in DOMAIN before.agents

\* C18: register_agent on a registered wallet returns the existing agent with
\* every field as it was, its name included, and leaves the registry as it was
ReregisterReturnsExisting ==
    Reregistered
    => /\ result.ret.agent = before.agents[result.call.wallet]
       /\ agents = before.agents

\* C18 at work: under another name, at a later tick, for an agent that has
\* moved on from its defaults
ReregisteredUnderOtherName ==
    /\ Reregistered
    /\ result.call.name # before.agents[result.call.wallet].name
    /\ before.state.tick > before.agents[result.call.wallet].entered_at
    /\ before.agents[result.call.wallet].region # "dock"

\* the last call was register_agent for a wallet that was not registered
NewlyRegistered ==
    /\ result.call.op = "register_agent"
    /\ result.call.wallet \notin DOMAIN before.agents

\* C19: register_agent on a new wallet creates an agent at dock with energy
\* and max_energy 100, credits 1000, reputation 100, no inventory and
\* entered_at the tick of the call, and leaves the other agents as they were
RegisterCreatesDefaults ==
    NewlyRegistered
    => /\ DOMAIN agents = DOMAIN before.agents \cup {result.call.wallet}
       /\ agents[result.call.wallet] =
              [wallet |-> result.call.wallet, name |-> result.call.name,
               region |-> "dock", energy |-> 100, max_energy |-> 100,
               credits |-> 1000, reputation |-> 100, inventory |-> <<>>,
               entered_at |-> before.state.tick]
       /\ result.ret.agent = agents[result.call.wallet]
       /\ \A w \in DOMAIN before.agents : agents[w] = before.agents[w]

\* C19 at work: a registration after the first tick
RegisteredAfterTick ==
    NewlyRegistered /\ before.state.tick = 1

\* the last call was a harvest by an agent with the AP for it
HarvestWithAP ==
    IsAction("harvest") /\ ~ShortOfAP

\* C20: with the AP for it, harvest succeeds exactly in mine, forest and
\* dock; a success costs 10 energy and adds a quantity in 1..5, the variate
\* of the seed made of state_hash, tick and wallet, to iron in the mine, wood
\* in the forest and fish at the dock, and nothing else of the agent changes;
\* in the market it fails and the agent stays as it was
HarvestYields ==
    HarvestWithAP
    => LET w == result.call.wallet
           was == before.agents[w]
           yield == [mine |-> "iron", forest |-> "wood", dock |-> "fish"]
       IN /\ result.ret.success <=> was.region \in {"mine", "forest", "dock"}
          /\ result.ret.success
             => LET q == result.ret.data.quantity
                    r == yield[was.region]
                IN /\ q \in 1..5
                   /\ q = rng[Append(PySeed(before.state.state_hash,
                                            before.state.tick, <<w>>), 2)]
                   /\ result.ret.data.resource = r
                   /\ agents[w] = [was EXCEPT
                          !.energy = @ - 10,
                          !.inventory = DictSet(@, r, PyGet(@, r, 0) + q)]
          /\ ~result.ret.success => agents[w] = was

\* C20 at work: wood harvested in the forest on top of the wood held
WoodHarvested ==
    /\ HarvestWithAP
    /\ before.agents[result.call.wallet].region = "forest"
    /\ PyGet(before.agents[result.call.wallet].inventory, "wood", 0) > 0
    /\ result.ret.success

\* the last call was a move
MoveCalled ==
    IsAction("move")

\* C21: move succeeds exactly when the target is one of dock, market, mine,
\* forest, differs from the agent's region and the agent has at least 5
\* energy; then region becomes the target, energy drops by 5 and nothing else
\* of the agent changes; otherwise the agent stays as it was
MoveSucceedsExactlyWhenLegal ==
    MoveCalled
    => LET w == result.call.wallet
           was == before.agents[w]
           target == PyGet(result.call.params, "target", None)
           legal == /\ target \in {"dock", "market", "mine", "forest"}
                    /\ target # was.region
                    /\ was.energy >= 5
       IN /\ result.ret.success <=> legal
          /\ legal => agents[w] = [was EXCEPT !.region = target,
                                              !.energy = was.energy - 5]
          /\ ~legal => agents[w] = was

\* C21 at work: a move on the last 5 energy
MovedOnLastEnergy ==
    /\ MoveCalled
    /\ before.agents[result.call.wallet].energy = 5
    /\ result.ret.success
    /\ agents[result.call.wallet].energy = 0

\* the last call was a rest
RestCalled ==
    IsAction("rest")

\* C22: rest succeeds whatever the agent's energy, costs no AP and sets the
\* energy to min(max_energy, energy + 30) at the dock and to
\* min(max_energy, energy + 20) in every other region; nothing else of the
\* agent changes
RestAlwaysRecovers ==
    RestCalled
    => LET w == result.call.wallet
           was == before.agents[w]
           gain == IF was.region = "dock" THEN 30 ELSE 20
       IN /\ result.ret.success
          /\ agents[w] = [was EXCEPT !.energy =
                             IF was.energy + gain < was.max_energy
                             THEN was.energy + gain ELSE was.max_energy]
          /\ result.ret.data.recovery = agents[w].energy - was.energy

\* C22 at work: a rest at the dock with no energy left
RestedAtDockOnZero ==
    /\ RestCalled
    /\ before.agents[result.call.wallet].energy = 0
    /\ before.agents[result.call.wallet].region = "dock"
    /\ agents[result.call.wallet].energy = 30

\* the last call was a place_order of the given side by an agent in the
\* market with the AP an order costs, for a listed resource
OrderPlaced(side) ==
    /\ IsAction("place_order")
    /\ ~ShortOfAP
    /\ before.agents[result.call.wallet].region = "market"
    /\ PyGet(result.call.params, "side", None) = side
    /\ PyGet(result.call.params, "resource", None)
           \in DOMAIN before.state.market_prices

\* C23: a sell of a quantity q >= 1 by an agent in the market that holds at
\* least q of a listed resource succeeds, takes q off that inventory entry,
\* adds floor(price * q * 95 / 100) to the credits, takes 3 off the energy,
\* changes nothing else of the agent and leaves the market prices as they were
SellPaysTaxedPrice ==
    LET w == result.call.wallet
        was == before.agents[w]
        r == result.call.params.resource
        q == PyGet(result.call.params, "quantity", 1)
        price == before.state.market_prices[r]
    IN OrderPlaced("sell") /\ q >= 1 /\ PyGet(was.inventory, r, 0) >= q
       => /\ result.ret.success
          /\ agents[w] = [was EXCEPT
                 !.inventory = DictSet(@, r, @[r] - q),
                 !.credits = @ + ((price * q * 95) \div 100),
                 !.energy = @ - 3]
          /\ state.market_prices = before.state.market_prices

\* C23 at work: 2 iron sold at 15, where the tax of 1.5 rounds the revenue
\* down to 28, by an agent left with 1 iron
SoldWithRoundedTax ==
    /\ OrderPlaced("sell")
    /\ result.ret.success
    /\ result.call.params.quantity = 2
    /\ before.state.market_prices[result.call.params.resource] = 15
    /\ result.ret.data.revenue = 28
    /\ agents[result.call.wallet].inventory[result.call.params.resource] = 1

\* C24: a buy of a quantity q of a listed resource by an agent in the market
\* with the AP an order costs succeeds exactly when credits >= price * q; it
\* then takes exactly price * q off the credits, adds q to the inventory
\* entry, takes 3 off the energy and changes nothing else of the agent
BuyExactlyWhenAffordable ==
    LET w == result.call.wallet
        was == before.agents[w]
        r == result.call.params.resource
        q == PyGet(result.call.params, "quantity", 1)
        cost == before.state.market_prices[r] * q
    IN OrderPlaced("buy")
       => /\ result.ret.success <=> was.credits >= cost
          /\ result.ret.success
             => agents[w] = [was EXCEPT
                    !.credits = @ - cost,
                    !.inventory = DictSet(@, r, PyGet(@, r, 0) + q),
                    !.energy = @ - 3]

\* C24 at work: a buy that takes the last credit, 125 fish at 8 for 1000
BoughtWithAllCredits ==
    /\ OrderPlaced("buy")
    /\ result.ret.success
    /\ result.call.params.quantity > 0
    /\ before.agents[result.call.wallet].credits > 0
    /\ agents[result.call.wallet].credits = 0

\* the last call was a raid that passed validation: by an attacker with the
\* AP for it, on a distinct registered agent of its region, outside the market
RaidExecuted ==
    /\ IsAction("raid")
    /\ ~ShortOfAP
    /\ RaidAllowed(before, result.call.wallet, result.call.params)

\* the roll of the last raid won
RaidWon ==
    RaidExecuted /\ "stolen" \in DOMAIN result.ret.data

\* the roll of the last raid lost
RaidLost ==
    RaidExecuted /\ "penalty" \in DOMAIN result.ret.data

\* C25: a raid that passes validation returns success=true and takes exactly
\* 25 off the attacker's energy, won or lost; which of the two it was shows in
\* the message and the data only
ValidRaidSucceeds ==
    RaidExecuted
    => /\ result.ret.success
       /\ agents[result.call.wallet].energy
              = before.agents[result.call.wallet].energy - 25
       /\ \/ result.ret.message = "Raid successful!"
                /\ DOMAIN result.ret.data = {"stolen", "target", "target_remaining"}
          \/ result.ret.message = "Raid failed!"
                /\ DOMAIN result.ret.data = {"penalty", "target"}

\* C25 at work: a lost raid, logged as a success
LostRaidReportedAsSuccess ==
    /\ RaidLost
    /\ result.ret.success
    /\ ledger[Len(ledger)].success
    /\ ledger[Len(ledger)].message = "Raid failed!"

\* C26: on a won raid the amount stolen is between 0 and the victim's
\* credits, the victim loses what the attacker gains, the attacker's
\* reputation drops by 10 and not below 0, the victim's rises by 5 and not
\* above 200
WonRaidTransfersStolen ==
    RaidWon
    => LET w == result.call.wallet
           t == result.call.params.target
           stolen == result.ret.data.stolen
       IN /\ 0 <= stolen
          /\ stolen <= before.agents[t].credits
          /\ agents[t].credits = before.agents[t].credits - stolen
          /\ agents[w].credits = before.agents[w].credits + stolen
          /\ agents[w].reputation
                 = (IF before.agents[w].reputation > 10
                    THEN before.agents[w].reputation - 10 ELSE 0)
          /\ agents[t].reputation
                 = (IF before.agents[t].reputation < 195
                    THEN before.agents[t].reputation + 5 ELSE 200)

\* C27: on a lost raid the attacker's credits drop by floor(5% of its
\* credits) and its reputation by 5 and not below 0, and the victim's
\* credits, reputation and inventory stay as they were. The penalty is
\* int(credits * 0.05), which rounds toward zero.
LostRaidCostsAttacker ==
    RaidLost
    => LET w == result.call.wallet
           t == result.call.params.target
       IN /\ agents[w].credits
                 = before.agents[w].credits
                       - ((before.agents[w].credits * 5) \div 100)
          /\ agents[w].reputation
                 = (IF before.agents[w].reputation > 5
                    THEN before.agents[w].reputation - 5 ELSE 0)
          /\ agents[t].credits = before.agents[t].credits
          /\ agents[t].reputation = before.agents[t].reputation
          /\ agents[t].inventory = before.agents[t].inventory

\* the roll of the last raid, over 200
RaidRoll ==
    rng[Append(PySeed(before.state.state_hash, before.state.tick,
                      <<result.call.wallet, result.call.params.target>>), 1)]

\* C28: the success probability the raid roll is compared with is within
\* [0.20, 0.90] for every pair of reputations in 0..200, that is a roll below
\* 0.20 wins and a roll of 0.90 or more loses whatever the reputations, and
\* it is 0.90 for attacker reputation 150 against victim reputation 50: there
\* the raid is won exactly when the roll is below 0.90
RaidOddsClamped ==
    RaidExecuted
    => /\ RaidRoll < 40 => RaidWon
       /\ RaidRoll >= 180 => RaidLost
       /\ before.agents[result.call.wallet].reputation = 150
             /\ before.agents[result.call.params.target].reputation = 50
          => (RaidWon <=> RaidRoll < 180)

\* C28 at work: reputation 150 against 50, and a roll just below 0.90 wins
RaidWonJustBelowCap ==
    /\ RaidWon
    /\ before.agents[result.call.wallet].reputation = 150
    /\ before.agents[result.call.params.target].reputation = 50
    /\ RaidRoll = 179

\* C29: the reputation shift added to the 60% base of a raid, ahead of the
\* clamp, has magnitude at most 0.5 for every pair of reputations reachable
\* in play. The shift is the difference of the reputations over 200, and the
\* reputations range over 0..200.
RaidShiftAtMostHalf ==
    RaidExecuted
    => LET shift == rep_bonus(before.agents[result.call.wallet].reputation,
                              before.agents[result.call.params.target].reputation)
       IN -100 <= shift /\ shift <= 100

\* the last call was a negotiate that passed validation and was turned down
NegotiateTurnedDown ==
    /\ IsAction("negotiate")
    /\ ~ShortOfAP
    /\ NegotiateRejection(before, result.call.wallet, result.call.params) = None
    /\ ~result.ret.data.accepted

\* C30: a negotiate that is turned down changes no credits, inventory or
\* reputation of either agent: it takes 15 off the initiator's energy and
\* leaves the agents as they were otherwise, appends one ledger entry and
\* returns success=true with accepted=false
TurnedDownNegotiateOnlyCostsAP ==
    NegotiateTurnedDown
    => LET w == result.call.wallet
       IN /\ agents = [before.agents EXCEPT ![w].energy = @ - 15]
          /\ result.ret.success
          /\ result.ret.data.accepted = FALSE
          /\ Len(ledger) = Len(before.ledger) + 1
          /\ SubSeq(ledger, 1, Len(before.ledger)) = before.ledger
          /\ ledger[Len(ledger)].action = "negotiate"
          /\ ledger[Len(ledger)].wallet = w
          /\ ledger[Len(ledger)].success

\* C30 at work: 10 credits offered for 100, turned down at any roll, by an
\* initiator and a target that both have the credits
UnfairOfferTurnedDown ==
    /\ NegotiateTurnedDown
    /\ result.call.params.offer_amount = 10
    /\ result.call.params.want_amount = 100
    /\ before.agents[result.call.params.target].credits >= 100
    /\ agents[result.call.wallet].energy
           = before.agents[result.call.wallet].energy - 15

\* the agents an action may change: the acting agent and, for raid and
\* negotiate, the named target
Parties ==
    {result.call.wallet}
    \cup (IF result.call.action \in {"raid", "negotiate"}
          THEN {PyGet(result.call.params, "target", None)} ELSE {})

\* C31: an action executed for an agent changes no field of any agent other
\* than that agent and, for raid and negotiate, the named target, registers
\* and removes nobody, and changes none of tick, tax_rate, market_prices and
\* active_events
ActionTouchesPartiesOnly ==
    result.call.op = "execute_action"
    => /\ DOMAIN agents = DOMAIN before.agents
       /\ \A x \in DOMAIN agents \ Parties : agents[x] = before.agents[x]
       /\ state.tick = before.state.tick
       /\ state.tax_rate = before.state.tax_rate
       /\ state.market_prices = before.state.market_prices
       /\ state.active_events = before.state.active_events

\* C31 at work: a won raid in the mine with a third agent standing by, after
\* a tick that started an event
RaidWonBesideBystander ==
    /\ RaidWon
    /\ DOMAIN agents \ Parties # {}
    /\ \A x \in DOMAIN agents : agents[x].region = "mine"
    /\ state.active_events # <<>>

\* C32: every agent's reputation is within [0, 200]. Agents register at 100
\* (Spec); from any reputations in 0..200 a raid or a negotiate leaves them in
\* 0..200 (SpecRivals)
ReputationWithinBounds ==
    \A w \in DOMAIN agents :
        0 <= agents[w].reputation /\ agents[w].reputation <= 200

\* C32 at work: a raid won by an attacker with less than 10 reputation on a
\* victim at 200: the one stays at 0, the other at 200
RaidWonAtBothEnds ==
    /\ RaidWon
    /\ before.agents[result.call.wallet].reputation \in 1..9
    /\ before.agents[result.call.params.target].reputation = 200
    /\ agents[result.call.wallet].reputation = 0
    /\ agents[result.call.params.target].reputation = 200

\* the last call was process_tick
Ticked ==
    result.call.op = "process_tick"

\* the events the last process_tick found expired
DroppedEvents ==
    SelectSeq(before.state.active_events,
              LAMBDA e : e.started_tick + e.duration <= before.state.tick)

\* C33: process_tick drops the expired events, triggers the new events of
\* the tick and state_hash it started with, each with that tick as
\* started_tick, updates the prices and recovers the energy with the effects
\* of the events that are then active, the new ones included, and only then
\* advances the tick and recomputes state_hash
TickFollowsOrder ==
    Ticked
    => LET kept == SelectSeq(before.state.active_events,
                       LAMBDA e : e.started_tick + e.duration > before.state.tick)
           new == result.ret.new_events
           draw == rng[generate_seed(before.state.tick, before.state.state_hash)]
           effects == get_active_effects(state.active_events)
           gain == (5 * effects.ap_recovery_modifier.num)
                       \div effects.ap_recovery_modifier.den
       IN /\ state.active_events = kept \o new
          /\ {new[i].event_type : i \in 1..Len(new)} = DOMAIN draw
          /\ \A i \in 1..Len(new) :
                /\ new[i].started_tick = before.state.tick
                /\ new[i].event_id
                       = <<new[i].event_type, before.state.tick, draw[new[i].event_type]>>
          /\ state.market_prices
                 = _update_market_prices(before, effects, result.call.noise,
                       get_price_effects(result.call.feed)).state.market_prices
          /\ \A w \in DOMAIN agents :
                agents[w] = [before.agents[w] EXCEPT !.energy =
                                IF @ + gain < before.agents[w].max_energy
                                THEN @ + gain ELSE before.agents[w].max_energy]
          /\ state.tick = before.state.tick + 1
          /\ state.state_hash = StateDigest(state, agents)
          /\ result.ret.tick = state.tick
          /\ result.ret.state_hash = state.state_hash

\* C33 at work: a tick that drops an expired event and starts a trade boom
\* and a plague felt at once, in the price of iron and in the energy of a
\* tired agent
TickDroppedAndStarted ==
    /\ Ticked
    /\ DroppedEvents # <<>>
    /\ \E i \in 1..Len(result.ret.new_events) :
          result.ret.new_events[i].event_type \in {"trade_boom", "plague"}
    /\ \E w \in DOMAIN agents : agents[w].energy < agents[w].max_energy

\* the plagues active once the last process_tick had dropped and added events
Plagues ==
    Len(SelectSeq(state.active_events, LAMBDA e : e.event_type = "plague"))

\* C34: a process_tick raises every agent's energy by
\* min(max_energy - energy, floor(5 * ap_recovery_modifier)), where the
\* modifier is halved by every active plague: by 5 with no plague, by 2 with
\* one; the returned ap_recovery is that floor
TickRecoversFloor ==
    Ticked
    => LET recovery == 5 \div (2 ^ Plagues)
       IN /\ Plagues = 0 => recovery = 5
          /\ Plagues = 1 => recovery = 2
          /\ result.ret.ap_recovery = recovery
          /\ \A w \in DOMAIN agents :
                LET room == before.agents[w].max_energy - before.agents[w].energy
                IN agents[w].energy
                      = before.agents[w].energy + (IF room < recovery THEN room ELSE recovery)

\* C34 at work: with one plague active an agent with room for more gained 2
TickRecoveredTwo ==
    /\ Ticked
    /\ Plagues = 1
    /\ \E w \in DOMAIN agents :
          /\ before.agents[w].max_energy - before.agents[w].energy > 2
          /\ agents[w].energy = before.agents[w].energy + 2

\* every event check_events has triggered so far, read off the generators
\* seeded for it: kind, tick of the seed, suffix drawn
Triggered ==
    UNION {{[event_id |-> <<t, k[3], rng[k][t]>>, event_type |-> t,
             started_tick |-> k[3], duration |-> EVENT_DURATIONS[t]]
            : t \in DOMAIN rng[k]}
           : k \in {y \in DOMAIN rng : y[1] = "sha256"}}

\* the triggered events of kind t that are due at the advance made at tick
DueEvents(t, tick) ==
    {e \in Triggered : /\ e.event_type = t
                       /\ e.started_tick <= tick
                       /\ tick <= e.started_tick + e.duration - 1}

\* C36: an event triggered in the advance made at tick t, of duration d, is
\* among the events whose effects are aggregated in exactly the advances
\* made at ticks t .. t+d-1 (a plague halves the recovery of exactly those),
\* and is not in active_events after the advance made at tick t+d
EventLastsItsDuration ==
    Ticked
    => /\ \A e \in Triggered :
             (\E i \in 1..Len(state.active_events) : state.active_events[i] = e)
             <=> e \in DueEvents(e.event_type, before.state.tick)
       /\ \A i \in 1..Len(state.active_events) : state.active_events[i] \in Triggered
       /\ result.ret.ap_recovery
              = 5 \div (2 ^ Cardinality(DueEvents("plague", before.state.tick)))

\* C36 at work: the advance made 15 ticks after a plague began dropped it,
\* and the recovery is 5 again
PlagueRanOut ==
    /\ Ticked
    /\ \E i \in 1..Len(before.state.active_events) :
          LET e == before.state.active_events[i]
          IN /\ e.event_type = "plague"
             /\ before.state.tick = e.started_tick + 15
             /\ \A j \in 1..Len(state.active_events) : state.active_events[j] # e
    /\ result.ret.ap_recovery = 5

\* the i-th call logged before the last one was a lost raid of the same
\* attacker on the same victim, and tick and state_hash have been the same
\* from that call up to the last one
LostBefore(i) ==
    /\ before.ledger[i].wallet = result.call.wallet
    /\ before.ledger[i].action = "raid"
    /\ before.ledger[i].params = result.call.params
    /\ before.ledger[i].message = "Raid failed!"
    /\ \A j \in i..Len(before.ledger) :
          /\ before.ledger[j].tick = before.state.tick
          /\ before.ledger[j].state_hash = before.state.state_hash

\* every call logged after the i-th and before the last one was made by the
\* attacker of the last one and was no negotiate
OwnCallsSince(i) ==
    \A j \in (i + 1)..Len(before.ledger) :
        /\ before.ledger[j].wallet = result.call.wallet
        /\ before.ledger[j].action # "negotiate"

\* C37 as claimed: once a raid by A on B has lost, no further raid by A on B
\* made while tick and state_hash are unchanged is won
LostRaidStaysLost ==
    RaidWon => \A i \in 1..Len(before.ledger) : ~LostBefore(i)

\* C37: once a raid by A on B has lost, no further raid by A on B made while
\* tick and state_hash are unchanged is won, provided every call in between
\* was made by A and was no negotiate: the roll is the same, and A's own
\* calls other than negotiate neither raise A's reputation nor lower B's
LostRaidStaysLostUndisturbed ==
    RaidWon => \A i \in 1..Len(before.ledger) : ~(LostBefore(i) /\ OwnCallsSince(i))

\* C37 at work: a raid lost again, after the same raid lost and the attacker
\* rested, on the same roll
RaidLostAgain ==
    /\ RaidLost
    /\ RaidRoll = 125
    /\ \E i \in 1..Len(before.ledger) :
          /\ LostBefore(i)
          /\ OwnCallsSince(i)
          /\ i < Len(before.ledger)

\* the last call was a harvest that succeeded while a storm or a mine
\* collapse held harvest_modifier below 1
HarvestedInBadTimes ==
    /\ HarvestWithAP
    /\ result.ret.success
    /\ \E i \in 1..Len(before.state.active_events) :
          before.state.active_events[i].event_type \in {"storm", "mine_collapse"}

TickStored ==
    Ticked /\ db.up /\ ~db.raises

\* C39: a new engine initialised from the storage the last process_tick
\* wrote has the tick, market prices, agents, active events and state_hash of
\* the engine that wrote it
RestartRestoresEngine ==
    TickStored
    => LET restarted == WorldEngine(db)
       IN /\ restarted.state.tick = state.tick
          /\ restarted.state.market_prices = state.market_prices
          /\ restarted.agents = agents
          /\ restarted.state.active_events = state.active_events
          /\ restarted.state.state_hash = state.state_hash

====
